---- MODULE Spec2Model ----
(***************************************************************************)
(* A model of script.js: the CSV row parser, the sort of the loaded        *)
(* records, the scales, the filter/redraw cycle (applyFilters,             *)
(* updateChart, renderYAxis, styleHighlightedStatesYAxis) and the three    *)
(* change handlers of the filter inputs.                                   *)
(*                                                                         *)
(* Conventions.  A CSV cell is a sequence of one-character strings, so     *)
(* that the date parser is modelled by what it does to the characters.     *)
(* A JavaScript value that may be a Date, null, undefined, Infinity or an  *)
(* Invalid Date is a record [kind, day]; a Date is a whole number of days  *)
(* since 1970-01-01 in local time (the parser only produces local          *)
(* midnights; daylight-saving shifts of one hour are not modelled).        *)
(* A pixel position is an exact fraction [kind, num, den] or NaN.          *)
(* The vertical geometry (band positions) is not modelled.                 *)
(***************************************************************************)
EXTENDS Integers, Sequences, FiniteSets, TLC

----------------------------------------------------------------------------
(* Bounds of the model *)

\* the longest CSV file considered, in rows
MaxRows == 3

----------------------------------------------------------------------------
(* Program constants *)

marginTop == 60
marginRight == 20
marginBottom == 80
marginLeft == 150
width == 1200 - marginLeft - marginRight
rowHeight == 20
dotRadius == 6
startBufferDays == 10

highlightedStates ==
    { "Pennsylvania", "Georgia", "North Carolina", "Wisconsin", "Michigan",
      "Arizona", "Nevada", "Nebraska", "New Hampshire", "Ohio", "Montana" }

legendData ==
    << [label |-> "Recommended Mail Date", color |-> "#FF5733"],
       [label |-> "Ballot Postmark Deadline", color |-> "#3F78E7"],
       [label |-> "Ballot Receipt Deadline", color |-> "#EF61F7"] >>

\* let filters = { all: true, post: true, postElectronic: true }
InitialFilters == [all |-> TRUE, post |-> TRUE, postElectronic |-> TRUE]

----------------------------------------------------------------------------
(* JavaScript values *)

Null == [kind |-> "null", day |-> 0]
Undefined == [kind |-> "undefined", day |-> 0]
Infinity == [kind |-> "Infinity", day |-> 0]
InvalidDate == [kind |-> "InvalidDate", day |-> 0]
DateOf(n) == [kind |-> "date", day |-> n]
IsDate(v) == v.kind = "date"

\* ToBoolean of a value that is a Date object or null: every object is truthy
Truthy(v) == v.kind /= "null"

NaN == [kind |-> "NaN", num |-> 0, den |-> 1]
Frac(n, d) == [kind |-> "num", num |-> n, den |-> d]

Range(s) == { s[i] : i \in DOMAIN s }

SetMin(S) == CHOOSE m \in S : \A n \in S : m <= n
SetMax(S) == CHOOSE m \in S : \A n \in S : m >= n

----------------------------------------------------------------------------
(* The calendar: new Date(year, monthIndex, day) in days since 1970-01-01 *)

\* days from the civil date y-m-d (m in 1..12, any integer d) to 1970-01-01
DaysFromCivil(y, m, d) ==
    LET yy  == IF m <= 2 THEN y - 1 ELSE y
        era == yy \div 400
        yoe == yy - era * 400
        mp  == IF m > 2 THEN m - 3 ELSE m + 9
        doy == (153 * mp + 2) \div 5 + d - 1
        doe == yoe * 365 + yoe \div 4 - yoe \div 100 + doy
    IN  era * 146097 + doe - 719468

\* the Date constructor normalises a month index outside 0..11 and a day
\* outside the month by carrying into the next unit
LocalDate(y, m0, d) == DaysFromCivil(y + (m0 \div 12), (m0 % 12) + 1, 1) + d - 1

----------------------------------------------------------------------------
(* d3.timeParse('%m/%d/%Y') *)

Digit == { "0", "1", "2", "3", "4", "5", "6", "7", "8", "9" }

DigitVal(c) ==
    CASE c = "0" -> 0 [] c = "1" -> 1 [] c = "2" -> 2 [] c = "3" -> 3
      [] c = "4" -> 4 [] c = "5" -> 5 [] c = "6" -> 6 [] c = "7" -> 7
      [] c = "8" -> 8 [] c = "9" -> 9

\* the number of digits at s[i..], at most k of them
RECURSIVE DigitRun(_, _, _)
DigitRun(s, i, k) ==
    IF k = 0 \/ i > Len(s) THEN 0
    ELSE IF s[i] \notin Digit THEN 0
    ELSE 1 + DigitRun(s, i + 1, k - 1)

\* the decimal value of the n digits s[i..i+n-1]
RECURSIVE NumVal(_, _, _)
NumVal(s, i, n) ==
    IF n = 0 THEN 0 ELSE NumVal(s, i, n - 1) * 10 + DigitVal(s[i + n - 1])

\* %m and %d read one or two digits, %Y one to four; the literal "/" must
\* match; the whole string must be consumed; the fields are not range-checked
\* but handed to the Date constructor.  A string that does not match gives null.
parseDate(s) ==
    LET n1 == DigitRun(s, 1, 2)
        i1 == 1 + n1
        n2 == DigitRun(s, i1 + 1, 2)
        i2 == i1 + 1 + n2
        n3 == DigitRun(s, i2 + 1, 4)
        i3 == i2 + 1 + n3
    IN  IF /\ n1 > 0
           /\ i1 <= Len(s)
           /\ s[i1] = "/"
           /\ n2 > 0
           /\ i2 <= Len(s)
           /\ s[i2] = "/"
           /\ n3 > 0
           /\ i3 = Len(s) + 1
        THEN DateOf(LocalDate(NumVal(s, i2 + 1, n3), NumVal(s, 1, n1) - 1,
                              NumVal(s, i1 + 1, n2)))
        ELSE Null

\* the literal "N/A"
NotApplicable == << "N", "/", "A" >>

\* d[col] === "N/A" ? null : parseDate(d[col])
parseCell(cell) == IF cell = NotApplicable THEN Null ELSE parseDate(cell)

\* the row accessor given to d3.csv; id is the identity of the object made
\* for the row (its index in the file)
rowParser(row, i) ==
    [ id |-> i,
      state |-> row.State,
      recommended_mail_date |-> parseCell(row.RecommendedMailDate),
      ballot_postmark_deadline |-> parseCell(row.BallotPostmarkDeadline),
      ballot_receipt_deadline |-> parseCell(row.BallotReceiptDeadline),
      return_methods |-> row.ReturnMethods ]

parseRows(rs) == [ i \in 1..Len(rs) |-> rowParser(rs[i], i) ]

----------------------------------------------------------------------------
(* data.sort((a, b) => ...) *)

\* d3.ascending on two Dates
ascending(a, b) == IF a < b THEN -1 ELSE IF a > b THEN 1 ELSE 0

\* a comparator with the signs of the two null cases exchanged
compareRecords_NullsFirst(a, b) ==
    IF a.recommended_mail_date = Null THEN -1
    ELSE IF b.recommended_mail_date = Null THEN 1
    ELSE ascending(a.recommended_mail_date.day, b.recommended_mail_date.day)

\* the comparator of the sort: a null date on the left is "greater" whatever
\* is on the right (two nulls included)
compareRecords(a, b) ==
    IF a.recommended_mail_date = Null THEN 1
    ELSE IF b.recommended_mail_date = Null THEN -1
    ELSE ascending(a.recommended_mail_date.day, b.recommended_mail_date.day)

Reverse(s) == [ i \in 1..Len(s) |-> s[Len(s) + 1 - i] ]

\* The comparator is not a consistent one (it says of two nulls that each is
\* greater than the other), so the order Array.prototype.sort produces is
\* implementation-defined.  The two algorithms engines run on an array this
\* short are modelled: V8's TimSort (one counted run, then binary insertion)
\* and SpiderMonkey's insertion sort.

\* the last index of the run starting at a[1]
RECURSIVE RunEnd(_, _, _)
RunEnd(a, idx, descending) ==
    IF idx > Len(a) THEN Len(a)
    ELSE LET order == compareRecords(a[idx], a[idx - 1])
         IN  IF descending
             THEN IF order >= 0 THEN idx - 1 ELSE RunEnd(a, idx + 1, descending)
             ELSE IF order < 0 THEN idx - 1 ELSE RunEnd(a, idx + 1, descending)

\* the insertion point of pivot in the sorted a[left..right-1]
RECURSIVE BinarySearch(_, _, _, _)
BinarySearch(a, pivot, left, right) ==
    IF left >= right THEN left
    ELSE LET mid == left + ((right - left) \div 2)
         IN  IF compareRecords(pivot, a[mid]) < 0
             THEN BinarySearch(a, pivot, left, mid)
             ELSE BinarySearch(a, pivot, mid + 1, right)

\* a with a[from] moved to position to (to <= from)
MoveTo(a, from, to) ==
    SubSeq(a, 1, to - 1) \o << a[from] >> \o SubSeq(a, to, from - 1)
        \o SubSeq(a, from + 1, Len(a))

RECURSIVE BinaryInsertionSort(_, _)
BinaryInsertionSort(a, start) ==
    IF start > Len(a) THEN a
    ELSE BinaryInsertionSort(
             MoveTo(a, start, BinarySearch(a, a[start], 1, start)), start + 1)

TimSort(a) ==
    IF Len(a) < 2 THEN a
    ELSE LET descending == compareRecords(a[2], a[1]) < 0
             runLen == RunEnd(a, 3, descending)
             run == IF descending
                    THEN Reverse(SubSeq(a, 1, runLen)) \o SubSeq(a, runLen + 1, Len(a))
                    ELSE a
         IN  BinaryInsertionSort(run, runLen + 1)

\* the position item takes when it sinks from j + 1 past greater elements
RECURSIVE SinkTo(_, _, _)
SinkTo(a, item, j) ==
    IF j < 1 THEN 1
    ELSE IF compareRecords(a[j], item) <= 0 THEN j + 1
    ELSE SinkTo(a, item, j - 1)

RECURSIVE InsertionSort(_, _)
InsertionSort(a, i) ==
    IF i > Len(a) THEN a
    ELSE InsertionSort(MoveTo(a, i, SinkTo(a, a[i], i - 1)), i + 1)

SortEngines == { "timsort", "insertion" }

sortData(engine, a) ==
    IF engine = "timsort" THEN TimSort(a) ELSE InsertionSort(a, 2)

----------------------------------------------------------------------------
(* The scales *)

\* d3.min(data, d => d.recommended_mail_date ? d.recommended_mail_date : Infinity)
minDate(ds) ==
    LET vals == { ds[i].recommended_mail_date.day :
                    i \in { j \in DOMAIN ds : Truthy(ds[j].recommended_mail_date) } }
    IN  IF Len(ds) = 0 THEN Undefined
        ELSE IF vals = {} THEN Infinity
        ELSE DateOf(SetMin(vals))

\* d3.timeDay.offset(date, step): new Date(+date) moved by step days
timeDayOffset(v, step) == IF IsDate(v) THEN DateOf(v.day + step) ELSE InvalidDate

\* the buffer added instead of subtracted
startDate_BufferAfter(ds) == timeDayOffset(minDate(ds), startBufferDays)

startDate(ds) == timeDayOffset(minDate(ds), 0 - startBufferDays)

\* d3.max(data, d => d.ballot_receipt_deadline): nulls are skipped
endDate(ds) ==
    LET vals == { ds[i].ballot_receipt_deadline.day :
                    i \in { j \in DOMAIN ds : IsDate(ds[j].ballot_receipt_deadline) } }
    IN  IF vals = {} THEN Undefined ELSE DateOf(SetMax(vals))

\* x(date) for x = d3.scaleTime().domain(dom).range([0, width]): linear, not
\* clamped; a domain of one point maps everything to the middle of the range
xScale(dom, v) ==
    IF ~IsDate(dom[1]) \/ ~IsDate(dom[2]) \/ ~IsDate(v) THEN NaN
    ELSE IF dom[2].day = dom[1].day THEN Frac(width, 2)
    ELSE Frac((v.day - dom[1].day) * width, dom[2].day - dom[1].day)

Map(s, F(_)) == [ i \in 1..Len(s) |-> F(s[i]) ]

\* the values of s in order of first appearance (new Set(...), and the
\* domain of a band scale)
RECURSIVE Distinct(_)
Distinct(s) ==
    IF Len(s) = 0 THEN << >>
    ELSE LET front == Distinct(SubSeq(s, 1, Len(s) - 1))
         IN  IF s[Len(s)] \in Range(front) THEN front ELSE Append(front, s[Len(s)])

StateOf(d) == d.state

----------------------------------------------------------------------------
(* The filter *)

\* a filter that trims the return methods before comparing
filterPredicate_Trimmed(f, d) ==
    IF f.all THEN TRUE
    ELSE IF f.post THEN d.return_methods \in { "Post", "Post " }
    ELSE IF f.postElectronic THEN d.return_methods = "Post, Electronic"
    ELSE FALSE

\* the callback of data.filter in applyFilters: a fixed order of priority
filterPredicate(f, d) ==
    IF f.all THEN TRUE
    ELSE IF f.post THEN d.return_methods = "Post"
    ELSE IF f.postElectronic THEN d.return_methods = "Post, Electronic"
    ELSE FALSE

filterData(f, ds) == SelectSeq(ds, LAMBDA d : filterPredicate(f, d))

----------------------------------------------------------------------------
(* The y axis: the groups of class "y-axis" under the chart, in document    *)
(* order, each with one tick per entry of the band scale's domain           *)

\* .tickFormat(d => ...): both branches return the label unchanged
tickFormat(d) == IF d \in highlightedStates THEN d ELSE d

tickOf(d) == [ datum |-> d, text |-> tickFormat(d), classes |-> {} ]

\* svg.append('g').attr("class", "y-axis").call(yAxis)
renderYAxis(groups, domain) ==
    Append(groups, [ class |-> "y-axis", ticks |-> Map(domain, tickOf) ])

\* .classed(name, on) adds the class when on is true and removes it otherwise
classed(classes, name, on) ==
    IF on THEN classes \cup { name } ELSE classes \ { name }

\* only the highlighted class is assigned
styleTick_HighlightOnly(t) ==
    [ t EXCEPT !.classes =
        classed(@, "highlighted-tick", t.datum \in highlightedStates) ]

styleTick(t) ==
    [ t EXCEPT !.classes =
        classed(classed(@, "highlighted-tick", t.datum \in highlightedStates),
                "normal-tick", ~(t.datum \in highlightedStates)) ]

styleGroup(g) == [ g EXCEPT !.ticks = Map(@, styleTick) ]

\* every tick label of every group of class "y-axis" is classified
styleHighlightedStatesYAxis(groups) == Map(groups, styleGroup)

\* the old axis is left in place
removeYAxis_Kept(groups) == groups

\* svg.select(".y-axis").remove(): the first such group, when there is one
removeYAxis(groups) == IF Len(groups) = 0 THEN groups ELSE Tail(groups)

----------------------------------------------------------------------------
(* The marks: the line and circle elements under the chart, in document     *)
(* order                                                                    *)

\* only the lines are cleared
removeMarks_LinesOnly(dom) == SelectSeq(dom, LAMBDA e : e.class /= "line")

\* svg.selectAll('.dot, .line').remove()
removeMarks(dom) == SelectSeq(dom, LAMBDA e : e.class \notin { "dot", "line" })

\* svg.selectAll('.' + cls)
selectAll(dom, cls) == SelectSeq(dom, LAMBDA e : e.class = cls)

\* selection.data(arr).enter(): the join is by index, so the entering data
\* are those beyond the elements already selected
enter(selected, arr) == SubSeq(arr, Len(selected) + 1, Len(arr))

\* a line for every record with a receipt deadline
hasLine_ReceiptOnly(d) == Truthy(d.ballot_receipt_deadline)

hasLine(d) == Truthy(d.recommended_mail_date) /\ Truthy(d.ballot_receipt_deadline)
hasMailDot(d) == Truthy(d.recommended_mail_date)
hasPostmarkDot(d) == Truthy(d.ballot_postmark_deadline)
hasReceiptDot(d) == Truthy(d.ballot_receipt_deadline)

lineElement(d, dom) ==
    [ tag |-> "line", class |-> "line", datum |-> d,
      pos |-> << xScale(dom, d.recommended_mail_date),
                 xScale(dom, d.ballot_receipt_deadline) >>,
      r |-> 0, paint |-> "gray" ]

circleElement(d, date, dom, fill) ==
    [ tag |-> "circle", class |-> "dot", datum |-> d,
      pos |-> << xScale(dom, date) >>, r |-> dotRadius, paint |-> fill ]

updateChart(dom, filteredDataArg, xd) ==
    LET m0 == removeMarks(dom)
        m1 == m0 \o Map(enter(selectAll(m0, "line"),
                              SelectSeq(filteredDataArg, hasLine)),
                        LAMBDA d : lineElement(d, xd))
        m2 == m1 \o Map(enter(selectAll(m1, "dot-mail"),
                              SelectSeq(filteredDataArg, hasMailDot)),
                        LAMBDA d : circleElement(d, d.recommended_mail_date,
                                                 xd, "#FF6F61"))
        m3 == m2 \o Map(enter(selectAll(m2, "dot-postmark"),
                              SelectSeq(filteredDataArg, hasPostmarkDot)),
                        LAMBDA d : circleElement(d, d.ballot_postmark_deadline,
                                                 xd, "#2171B5"))
    IN  m3 \o Map(enter(selectAll(m3, "dot-receipt"),
                        SelectSeq(filteredDataArg, hasReceiptDot)),
                  LAMBDA d : circleElement(d, d.ballot_receipt_deadline,
                                           xd, "#EF61F7"))

\* applyFilters(): what it leaves in the band scale's domain and in the
\* document, given the filters, the records, the groups and marks present
\* and the time scale's domain
applyFilters(f, ds, groups, dom, xd) ==
    LET fd == filterData(f, ds)
        filteredStates == Distinct(Map(fd, StateOf))
    IN  [ filteredData |-> fd,
          yDomain |-> filteredStates,
          yAxisGroups |->
              styleHighlightedStatesYAxis(
                  renderYAxis(removeYAxis(groups), filteredStates)),
          marks |-> updateChart(dom, fd, xd) ]

\* the if-block of a change handler: the single-true mode of the input when
\* the input is checked, the filters as they were otherwise
SingleMode(input) ==
    [ all |-> input = "all", post |-> input = "post",
      postElectronic |-> input = "postElectronic" ]

\* the if-block without its condition
handlerFilters_Unguarded(input, checked, f) == SingleMode(input)

handlerFilters(input, checked, f) == IF checked THEN SingleMode(input) ELSE f

----------------------------------------------------------------------------
(* The CSV files considered *)

c0910 == << "0", "9", "/", "1", "0", "/", "2", "0", "2", "4" >>
c1001 == << "1", "0", "/", "0", "1", "/", "2", "0", "2", "4" >>
c1104 == << "1", "1", "/", "0", "4", "/", "2", "0", "2", "4" >>
c1105 == << "1", "1", "/", "0", "5", "/", "2", "0", "2", "4" >>
c1112 == << "1", "1", "/", "1", "2", "/", "2", "0", "2", "4" >>
\* not in the format: an ISO date
cIso == << "2", "0", "2", "4", "-", "0", "9", "-", "2", "0" >>
\* in the format, but no date of the calendar: 30 February
cFeb30 == << "0", "2", "/", "3", "0", "/", "2", "0", "2", "4" >>

Row(st, mail, postmark, receipt, methods) ==
    [ State |-> st, RecommendedMailDate |-> mail,
      BallotPostmarkDeadline |-> postmark, BallotReceiptDeadline |-> receipt,
      ReturnMethods |-> methods ]

RowCatalogue ==
    { Row("Wisconsin", c0910, NotApplicable, c1105, "Post"),
      Row("Texas", c1001, c1105, c1112, "Post, Electronic"),
      Row("Ohio", NotApplicable, c1104, NotApplicable, "Post"),
      Row("Guam", NotApplicable, NotApplicable, NotApplicable, "post"),
      Row("Texas", c0910, c1105, c1105, "Post"),
      Row("Montana", cIso, cFeb30, c1105, "Post ") }

\* the files of at most MaxRows rows of the catalogue, no row twice
Files ==
    UNION { { f \in [ 1..n -> RowCatalogue ] :
                \A i, j \in 1..n : f[i] = f[j] => i = j } : n \in 0..MaxRows }

----------------------------------------------------------------------------
(* The state *)

VARIABLES
    phase,          \* "loading", "rendered" (the then-callback ran), "failed"
    rows,           \* the rows of data.csv
    filters,        \* the global filters object
    data,           \* the sorted records
    svgSize,        \* the width and height attributes set on #chart
    xDomain,        \* the domain of the time scale x
    yDomain,        \* the domain of the band scale y
    yAxisGroups,    \* the groups of class "y-axis" in the document
    marks,          \* the line and circle elements in the document
    legend,         \* the legend entries in the document
    errorLog,       \* what console.error was called with
    filteredData,   \* filteredData of the last applyFilters call
    lastEvent       \* the last change event handled: its input and whether
                    \* the input was checked

vars == << phase, rows, filters, data, svgSize, xDomain, yDomain, yAxisGroups,
           marks, legend, errorLog, filteredData, lastEvent >>

NoEvent == [ input |-> "none", checked |-> FALSE ]

Init ==
    /\ phase = "loading"
    /\ rows \in Files
    /\ filters = InitialFilters
    /\ data = << >>
    /\ svgSize = << >>
    /\ xDomain = << >>
    /\ yDomain = << >>
    /\ yAxisGroups = << >>
    /\ marks = << >>
    /\ legend = << >>
    /\ errorLog = << >>
    /\ filteredData = << >>
    /\ lastEvent = NoEvent

\* d3.csv resolves: the whole then-callback, from the sort to the first
\* applyFilters() and the registration of the change handlers
Load ==
    /\ phase = "loading"
    /\ \E engine \in SortEngines :
         LET sorted == sortData(engine, parseRows(rows))
             height == Len(sorted) * rowHeight
             xd == << startDate(sorted), endDate(sorted) >>
             firstAxis == styleHighlightedStatesYAxis(
                              renderYAxis(<< >>, Distinct(Map(sorted, StateOf))))
             drawn == applyFilters(filters, sorted, firstAxis, << >>, xd)
         IN  /\ data' = sorted
             /\ svgSize' = << width + marginLeft + marginRight,
                              height + marginTop + marginBottom >>
             /\ xDomain' = xd
             /\ legend' = legendData
             /\ filteredData' = drawn.filteredData
             /\ yDomain' = drawn.yDomain
             /\ yAxisGroups' = drawn.yAxisGroups
             /\ marks' = drawn.marks
    /\ phase' = "rendered"
    /\ UNCHANGED << rows, filters, errorLog, lastEvent >>

\* d3.csv rejects: the catch handler
LoadFails ==
    /\ phase = "loading"
    /\ phase' = "failed"
    /\ errorLog' = Append(errorLog, "Error loading the CSV data: ")
    /\ UNCHANGED << rows, filters, data, svgSize, xDomain, yDomain, yAxisGroups,
                    marks, legend, filteredData, lastEvent >>

\* a change handler: the if-block, then applyFilters()
OnChange(input, checked) ==
    /\ phase = "rendered"
    /\ filters' = handlerFilters(input, checked, filters)
    /\ LET drawn == applyFilters(filters', data, yAxisGroups, marks, xDomain)
       IN  /\ filteredData' = drawn.filteredData
           /\ yDomain' = drawn.yDomain
           /\ yAxisGroups' = drawn.yAxisGroups
           /\ marks' = drawn.marks
    /\ lastEvent' = [ input |-> input, checked |-> checked ]
    /\ UNCHANGED << phase, rows, data, svgSize, xDomain, legend, errorLog >>

OnChangePost == \E checked \in BOOLEAN : OnChange("post", checked)
OnChangePostElectronic == \E checked \in BOOLEAN : OnChange("postElectronic", checked)
OnChangeAll == \E checked \in BOOLEAN : OnChange("all", checked)

Next ==
    \/ Load
    \/ LoadFails
    \/ OnChangePost
    \/ OnChangePostElectronic
    \/ OnChangeAll

Spec == Init /\ [][Next]_vars

----------------------------------------------------------------------------
(* Properties *)

Flags == { "all", "post", "postElectronic" }
TrueFlags(f) == { k \in Flags : f[k] }
AllFilterStates == [ all : BOOLEAN, post : BOOLEAN, postElectronic : BOOLEAN ]

NonNullCount(d) ==
    Cardinality({ v \in { << "mail", d.recommended_mail_date >>,
                          << "postmark", d.ballot_postmark_deadline >>,
                          << "receipt", d.ballot_receipt_deadline >> } :
                    v[2] /= Null })

\* the first index of v in s
FirstIndex(s, v) == SetMin({ i \in DOMAIN s : s[i] = v })

TickData(g) == [ i \in 1..Len(g.ticks) |-> g.ticks[i].datum ]

MailDays(ds) ==
    { ds[i].recommended_mail_date.day :
        i \in { j \in DOMAIN ds : ds[j].recommended_mail_date /= Null } }

ReceiptDays(ds) ==
    { ds[i].ballot_receipt_deadline.day :
        i \in { j \in DOMAIN ds : ds[j].ballot_receipt_deadline /= Null } }

\* C1: in every reachable state exactly one of the three flags of the filter
\* state is true, and before any selection event it is the flag all.
C1_ExactlyOneFlag ==
    /\ Cardinality(TrueFlags(filters)) = 1
    /\ lastEvent = NoEvent => filters = SingleMode("all")

\* what one full redraw cycle for the filters f leaves: the filtered subset,
\* one categorical axis over its states, and its marks
RedrawnFor(f, fd, groups, ms) ==
    /\ fd = filterData(f, data)
    /\ Len(groups) = 1
    /\ TickData(groups[1]) = Distinct(Map(fd, StateOf))
    /\ ms = updateChart(<< >>, fd, xDomain)

\* C2 as stated: after a change event of an input, whatever its checked
\* value, the filter state is the single-true mode of that input and one
\* redraw ran for the event.
C2_EveryEventSetsMode ==
    lastEvent.input /= "none" =>
        /\ filters = SingleMode(lastEvent.input)
        /\ RedrawnFor(filters, filteredData, yAxisGroups, marks)

\* C2 amended: a change event of an input that is checked sets the filter
\* state to the single-true mode of that input; a change event of an input
\* that is not checked leaves the filter state as it was; in both cases one
\* full redraw cycle (filter, categorical axis, marks) runs for the event.
C2_CheckedEventSetsMode ==
    [][ lastEvent'.input /= "none" =>
          /\ filters' = IF lastEvent'.checked
                        THEN SingleMode(lastEvent'.input)
                        ELSE filters
          /\ RedrawnFor(filters', filteredData', yAxisGroups', marks') ]_vars

\* an unchecked event of all after post was selected: the mode stays post
C2_Witness ==
    /\ lastEvent = [ input |-> "all", checked |-> FALSE ]
    /\ filters = SingleMode("post")
    /\ Len(filteredData) = 1
    /\ Len(data) = 3

\* the subset the filter is to return for the filter state f
ExpectedSubset(f, ds) ==
    IF f.all THEN Range(ds)
    ELSE IF f.post THEN { d \in Range(ds) : d.return_methods = "Post" }
    ELSE IF f.postElectronic
         THEN { d \in Range(ds) : d.return_methods = "Post, Electronic" }
    ELSE { }

\* C3: for every filter state the filter returns every record when all is
\* set, else the records whose return methods are exactly "Post" when post is
\* set, else those whose return methods are exactly "Post, Electronic" when
\* postElectronic is set, else none; the subset displayed is the one for the
\* current filter state.
C3_FilterEngine ==
    phase = "rendered" =>
        /\ \A f \in AllFilterStates :
             /\ Range(filterData(f, data)) = ExpectedSubset(f, data)
             /\ Len(filterData(f, data)) = Cardinality(ExpectedSubset(f, data))
        /\ Range(filteredData) = ExpectedSubset(filters, data)
        /\ Len(filteredData) = Cardinality(ExpectedSubset(filters, data))
        /\ filters.all => filteredData = data

\* post alone is selected, and the records hold return methods that differ
\* from "Post" by a trailing blank and by a longer list
C3_Witness ==
    /\ phase = "rendered"
    /\ filters = SingleMode("post")
    /\ lastEvent = [ input |-> "post", checked |-> TRUE ]
    /\ { "Post", "Post ", "Post, Electronic" }
           = { data[i].return_methods : i \in DOMAIN data }
    /\ Len(filteredData) = 1

\* C4: after every redraw each record of the filtered subset has as many
\* dots as it has non-null dates, and one line, from the image of its
\* recommended mail date to the image of its receipt deadline, exactly when
\* both of these are non-null.
C4_MarksPerRecord ==
    phase = "rendered" =>
        \A d \in Range(filteredData) :
            LET dots == { i \in DOMAIN marks :
                            marks[i].tag = "circle" /\ marks[i].datum = d }
                lines == { i \in DOMAIN marks :
                             marks[i].tag = "line" /\ marks[i].datum = d }
            IN  /\ Cardinality(dots) = NonNullCount(d)
                /\ Cardinality(lines) =
                     IF d.recommended_mail_date /= Null
                        /\ d.ballot_receipt_deadline /= Null
                     THEN 1 ELSE 0
                /\ \A i \in lines :
                     marks[i].pos = << xScale(xDomain, d.recommended_mail_date),
                                       xScale(xDomain, d.ballot_receipt_deadline) >>

\* after a filter event the subset holds a record with three dates and a
\* line, one with a receipt deadline but no mail date, and one with one date
C4_Witness ==
    /\ phase = "rendered"
    /\ lastEvent /= NoEvent
    /\ \E d \in Range(filteredData) :
         NonNullCount(d) = 3 /\ \E i \in DOMAIN marks : marks[i].tag = "line"
    /\ \E d \in Range(filteredData) :
         d.recommended_mail_date = Null /\ d.ballot_receipt_deadline /= Null
    /\ \E d \in Range(filteredData) : NonNullCount(d) = 1

\* C5: a redraw leaves exactly the marks of one draw of the filtered subset
\* on an empty chart, without duplicates; a redraw with the same filtered
\* subset leaves the marks as they were, and drawing once more changes
\* nothing.
C5_RedrawIdempotent ==
    [][ phase' = "rendered" =>
          /\ marks' = updateChart(<< >>, filteredData', xDomain')
          /\ \A i, j \in DOMAIN marks' : marks'[i] = marks'[j] => i = j
          /\ \A i \in DOMAIN marks' : marks'[i].datum \in Range(filteredData')
          /\ updateChart(marks', filteredData', xDomain') = marks'
          /\ (phase = "rendered" /\ filteredData' = filteredData) => marks' = marks
      ]_vars

\* an event that left the filter state, hence the filtered subset, as it
\* was after an earlier event, with marks drawn
C5_Witness ==
    /\ lastEvent = [ input |-> "postElectronic", checked |-> FALSE ]
    /\ filters = SingleMode("post")
    /\ Len(marks) >= 4

\* C6: after the first render and after every filter event there is one
\* categorical axis, and its ticks are the distinct states of the filtered
\* subset in the order of their first appearance (which, the states of the
\* records being distinct, is their order in the sorted records).
C6_OneCategoricalAxis ==
    phase = "rendered" =>
        /\ Len(yAxisGroups) = 1
        /\ LET t == TickData(yAxisGroups[1])
               shown == Map(filteredData, StateOf)
               every == Map(data, StateOf)
           IN  /\ Range(t) = Range(shown)
               /\ \A i, j \in DOMAIN t : t[i] = t[j] => i = j
               /\ \A i, j \in DOMAIN t :
                    i < j => FirstIndex(shown, t[i]) < FirstIndex(shown, t[j])
               /\ (\A i, j \in DOMAIN every : every[i] = every[j] => i = j) =>
                    \A i, j \in DOMAIN t :
                        i < j => FirstIndex(every, t[i]) < FirstIndex(every, t[j])
               /\ t = yDomain

\* after a filter event the axis shows two of three distinct states
C6_Witness ==
    /\ phase = "rendered"
    /\ lastEvent /= NoEvent
    /\ Len(yAxisGroups) = 1
    /\ Len(yAxisGroups[1].ticks) = 2
    /\ Cardinality({ data[i].state : i \in DOMAIN data }) = 3

\* C7: the loaded records are a permutation of the parsed rows in which
\* every record with a recommended mail date precedes every record without
\* one, and those with one are in ascending order of it.
C7_SortedNullsLast ==
    phase = "rendered" =>
        /\ Len(data) = Len(rows)
        /\ Range(data) = Range(parseRows(rows))
        /\ \A i, j \in DOMAIN data :
             i < j =>
               /\ data[i].recommended_mail_date = Null
                    => data[j].recommended_mail_date = Null
               /\ (data[i].recommended_mail_date /= Null
                   /\ data[j].recommended_mail_date /= Null)
                    => data[i].recommended_mail_date.day
                         <= data[j].recommended_mail_date.day

\* a file of a null-dated row, a dated row and another null-dated row
C7_Witness ==
    /\ phase = "rendered"
    /\ Len(rows) = 3
    /\ rows[1].RecommendedMailDate = NotApplicable
    /\ rows[2].RecommendedMailDate = c1001
    /\ rows[3].RecommendedMailDate = NotApplicable
    /\ data[1].id = 2

\* C8: when some recommended mail date is non-null, the domain of the time
\* axis starts 10 days before the least recommended mail date of all the
\* records and ends at their greatest receipt deadline, after the first
\* render and after every filter event.
C8_TimeDomainFixed ==
    (phase = "rendered" /\ MailDays(data) /= { }) =>
        /\ xDomain[1] = DateOf(SetMin(MailDays(data)) - 10)
        /\ ReceiptDays(data) /= { } => xDomain[2] = DateOf(SetMax(ReceiptDays(data)))

\* postElectronic is selected and the subset displayed starts later than
\* the records do: the domain still starts on 2024-08-31, 10 days before
\* 2024-09-10, and ends on 2024-11-12
C8_Witness ==
    /\ phase = "rendered"
    /\ filters = SingleMode("postElectronic")
    /\ lastEvent /= NoEvent
    /\ MailDays(filteredData) = { DaysFromCivil(2024, 10, 1) }
    /\ SetMin(MailDays(data)) = DaysFromCivil(2024, 9, 10)
    /\ xDomain = << DateOf(DaysFromCivil(2024, 8, 31)),
                    DateOf(DaysFromCivil(2024, 11, 12)) >>

IsLeap(y) == (y % 4 = 0 /\ y % 100 /= 0) \/ y % 400 = 0

DaysInMonth(y, m) ==
    IF m = 2 THEN (IF IsLeap(y) THEN 29 ELSE 28)
    ELSE IF m \in { 4, 6, 9, 11 } THEN 30 ELSE 31

\* a cell MM/DD/YYYY that names a date of the calendar
IsValidDateCell(c) ==
    /\ Len(c) = 10
    /\ c[3] = "/"
    /\ c[6] = "/"
    /\ \A i \in { 1, 2, 4, 5, 7, 8, 9, 10 } : c[i] \in Digit
    /\ NumVal(c, 1, 2) \in 1..12
    /\ NumVal(c, 4, 2) \in 1..DaysInMonth(NumVal(c, 7, 4), NumVal(c, 1, 2))

DateCells(row) ==
    { row.RecommendedMailDate, row.BallotPostmarkDeadline, row.BallotReceiptDeadline }

\* C9: a date cell that is neither "N/A" nor a valid date in the format is
\* fatal for the load: no chart is rendered from a file that holds one.
C9_MalformedCellIsFatal ==
    phase = "rendered" =>
        \A i \in DOMAIN rows :
            \A c \in DateCells(rows[i]) : c = NotApplicable \/ IsValidDateCell(c)

\* C10: every tick label of the categorical axis keeps its text and carries
\* exactly one of the two classes, the highlighted one exactly when its state
\* is one of the eleven.
C10_TickClasses ==
    phase = "rendered" =>
        \A g \in Range(yAxisGroups) :
            \A t \in Range(g.ticks) :
                /\ t.text = t.datum
                /\ t.classes \in { { "highlighted-tick" }, { "normal-tick" } }
                /\ "highlighted-tick" \in t.classes <=>
                     t.datum \in { "Pennsylvania", "Georgia", "North Carolina",
                                   "Wisconsin", "Michigan", "Arizona", "Nevada",
                                   "Nebraska", "New Hampshire", "Ohio", "Montana" }

\* under the filter post the axis shows Wisconsin highlighted and Texas normal
C10_Witness ==
    /\ phase = "rendered"
    /\ filters = SingleMode("post")
    /\ lastEvent /= NoEvent
    /\ Len(yAxisGroups) = 1
    /\ \E t \in Range(yAxisGroups[1].ticks) :
         t.text = "Wisconsin" /\ t.classes = { "highlighted-tick" }
    /\ \E t \in Range(yAxisGroups[1].ticks) :
         t.text = "Texas" /\ t.classes = { "normal-tick" }

====
